---- MODULE Spec2Model ----
(***************************************************************************)
(* Model of remotable_python.py: the SSHClient session (connect, close,    *)
(* execute, copy_folder, copy_file), the scoped session of RemotePython    *)
(* (open_ssh_client) and the three workflows built on it.                  *)
(*                                                                         *)
(* The transport (paramiko) and the remote host are the environment: every *)
(* call the program makes on them is appended to `calls`, and each call    *)
(* either raises or takes effect on the remote file system `remote`.       *)
(***************************************************************************)
EXTENDS Integers, Sequences, FiniteSets, TLC

(* ------------------------------ bounds --------------------------------- *)
\* deepest level of the local project tree below the project folder
MaxDepth == 2
\* most nodes of the local project tree, the project folder not counted
MaxNodes == 3
\* most tokens of a command handed to execute() by a direct caller
MaxTokens == 2
\* most SSHClient method calls a direct caller makes
MaxOps == 3

(* ------------------------------ paths ---------------------------------- *)
\* A pathlib.Path is the sequence of its components; all paths here are
\* absolute except the entry file of a project, which is relative.
Name(p) == p[Len(p)]
JoinPath(p, q) == p \o q
Parent(p) == SubSeq(p, 1, Len(p) - 1)
IsUnder(p, q) == Len(p) >= Len(q) /\ SubSeq(p, 1, Len(q)) = q

RECURSIVE JoinWith(_, _)
\* str.join: the items with the separator between each two of them
JoinWith(sep, s) ==
    IF s = <<>> THEN ""
    ELSE IF Len(s) = 1 THEN s[1]
    ELSE s[1] \o sep \o JoinWith(sep, Tail(s))

\* Path.as_posix() of an absolute path
AsPosix(p) == "/" \o JoinWith("/", p)

(* --------------------------- fixed arguments --------------------------- *)
ProjectPath == <<"local", "App">>
EntryFile == <<"run.py">>
LocalFile == <<"local", "task.py">>
RemoteDestination == <<"srv">>
EnvFolder == <<"srv">>
EnvName == "venv"
ChildNames == {"run.py", "lib"}

(* ---------------------------- local trees ------------------------------ *)
\* A local tree is a function from the absolute path of each node to its
\* kind: "file", "dir", or "other" (is_file() and is_dir() both false).
Node(p, k) == [path |-> p, kind |-> k]

RECURSIVE TreesAt(_, _), Forest(_, _, _)
\* the node sets of a directory p whose content is at most d levels deep
TreesAt(p, d) ==
    {{Node(p, "dir")} \cup f : f \in (IF d = 0 THEN {{}} ELSE Forest(p, ChildNames, d))}
\* the node sets of the children of p named in names
Forest(p, names, d) ==
    IF names = {} THEN {{}}
    ELSE LET n == CHOOSE x \in names : TRUE
             q == p \o <<n>>
             opts == {{}, {Node(q, "file")}, {Node(q, "other")}} \cup TreesAt(q, d - 1)
         IN  {x \cup y : x \in opts, y \in Forest(p, names \ {n}, d)}

AsFunction(nodes) ==
    [p \in {n.path : n \in nodes} |-> (CHOOSE n \in nodes : n.path = p).kind]

LocalTrees ==
    {AsFunction(t) : t \in {u \in TreesAt(ProjectPath, MaxDepth) : Cardinality(u) <= MaxNodes + 1}}

\* Path.is_file() and Path.is_dir()
IsFile(fs, p) == p \in DOMAIN fs /\ fs[p] = "file"
IsDir(fs, p) == p \in DOMAIN fs /\ fs[p] = "dir"

\* Path.iterdir(): the direct children of directory p
IterDir(fs, p) == {q \in DOMAIN fs : Len(q) = Len(p) + 1 /\ IsUnder(q, p)}

(* --------------------------- error kinds ------------------------------- *)
NoError == "none"
\* getattr(self, 'ssh_client') when connect() never set the attribute
AttributeError == "AttributeError"
\* raised by the transport's connect()
ConnectionError == "ConnectionError"
\* raised by the transport's exec_command() or open_sftp()
SSHException == "SSHException"
\* raised by the file channel's mkdir() or put()
TransferError == "TransferError"
\* the assert of execute_python_file
AssertionError == "AssertionError"
\* the domain exception type of the module; no statement of the module raises it
RemotePythonException == "RemotePythonException"

(* ------------------------------- state --------------------------------- *)
VARIABLES
    action,      \* the subcommand main() dispatches on, or "client" for a direct caller
    as_root,     \* the --as-root flag
    command,     \* the token list a direct caller hands to execute()
    localfs,     \* the local file system: path -> kind
    remote,      \* the remote file system: path -> "dir", "old" (a file found there) or "new" (a file put)
    attached,    \* whether the SSHClient object has the attribute 'ssh_client'
    opened,      \* whether the transport handle is connected and not closed
    calls,       \* the transport calls issued so far, in order
    out,         \* what print() has written, one entry per call of print
    pc,          \* the statement the caller is at
    exc,         \* the exception that is propagating, or the result of the last call
    stack,       \* the frames of copy_folder, innermost last
    copy,        \* the top-level copy_folder call in progress or last made
    last,        \* the method a direct caller called last, and the session state it found
    opsLeft,     \* the method calls a direct caller may still make
    proc,        \* the remote command execute() is reading from, and what it has written
    exit         \* how the process ended and with which status; NoExit while it runs

vars == <<action, as_root, command, localfs, remote, attached, opened, calls, out,
          pc, exc, stack, copy, last, opsLeft, proc, exit>>

Workflows == {"env", "execute-project", "execute-file"}

EmptyFs == [p \in {} |-> "file"]

\* fs with path p set to v
With(fs, p, v) == [q \in DOMAIN fs \cup {p} |-> IF q = p THEN v ELSE fs[q]]
\* fs without the paths in gone
Without(fs, gone) == [q \in DOMAIN fs \ gone |-> fs[q]]

\* the remote file systems a run may find: the destination folder, and
\* possibly what an earlier run left in it
RemoteStates(a) ==
    LET base == With(EmptyFs, RemoteDestination, "dir")
        app == JoinPath(RemoteDestination, <<Name(ProjectPath)>>)
    IN  CASE a = "env" ->
               {base, With(base, JoinPath(EnvFolder, <<EnvName>>), "dir")}
          [] a = "execute-file" ->
               {base, With(base, JoinPath(RemoteDestination, <<Name(LocalFile)>>), "old")}
          [] OTHER ->
               {base, With(base, app, "dir"),
                With(With(base, app, "dir"), JoinPath(app, EntryFile), "old")}

\* the local files of a direct caller: a project of one file, and a file
ClientFiles ==
    With(With(With(EmptyFs, ProjectPath, "dir"), JoinPath(ProjectPath, EntryFile), "file"),
         LocalFile, "file")

LocalStates(a) ==
    CASE a = "env" -> {EmptyFs}
      [] a = "execute-file" -> {With(EmptyFs, LocalFile, "file"), With(EmptyFs, LocalFile, "dir")}
      [] OTHER -> LocalTrees

RECURSIVE SeqsUpTo(_, _)
\* the sequences over S of length at most n
SeqsUpTo(S, n) ==
    IF n = 0 THEN {<<>>}
    ELSE LET shorter == SeqsUpTo(S, n - 1)
         IN  shorter \cup {Append(s, x) : s \in shorter, x \in S}

Tokens == {"ls", "-l /tmp"}
Commands == SeqsUpTo(Tokens, MaxTokens)

NoCopy == [state |-> "none", from |-> 0, before |-> EmptyFs, local_folder |-> <<>>,
           remote_destination |-> <<>>]
NoCall == [op |-> "none", session |-> "never", from |-> 0]
NoExit == [how |-> "running", status |-> -1]

NoProc == [cmd |-> "", get_pty |-> FALSE, status |-> 0, lines |-> <<>>, written |-> 0,
           read |-> 0, exited |-> FALSE, from |-> 0, next |-> ""]

InitCommon ==
    /\ attached = FALSE
    /\ opened = FALSE
    /\ calls = <<>>
    /\ out = <<>>
    /\ exc = NoError
    /\ stack = <<>>
    /\ copy = NoCopy
    /\ last = NoCall
    /\ proc = NoProc
    /\ exit = NoExit

\* main(): one of the three subcommands, with its arguments
Init ==
    /\ action \in Workflows
    /\ as_root \in (IF action = "env" THEN {FALSE} ELSE BOOLEAN)
    /\ command = <<>>
    /\ localfs \in LocalStates(action)
    /\ remote \in RemoteStates(action)
    /\ pc = "start"
    /\ opsLeft = 0
    /\ InitCommon

\* a direct caller of one SSHClient object
InitSession ==
    /\ action = "client"
    /\ as_root \in BOOLEAN
    /\ command \in Commands
    /\ localfs = ClientFiles
    /\ remote \in RemoteStates(action)
    /\ pc = "idle"
    /\ opsLeft = MaxOps
    /\ InitCommon

(* --------------------------- the remote host --------------------------- *)
\* exit statuses a remote command may end with
ExitStatuses == {0, 1}

\* what the remote process writes: a line on stdout when it succeeds, a line
\* on stderr when it does not
RemoteStdout(status) == IF status = 0 THEN <<"ok\n", "done\n">> ELSE <<>>
RemoteStderr(status) == IF status = 0 THEN <<>> ELSE <<"error\n">>

\* the remote shell running the invocation string cmd: rm -rf removes a
\* path and all below it, rm -f removes a file, python3 -m venv creates a
\* folder; a command that ends with a nonzero status changed nothing
RemoteShell(cmd, status, fs) ==
    IF status # 0 THEN fs
    ELSE LET rmrf == {p \in DOMAIN fs :
                        cmd \in {"rm -rf " \o AsPosix(p), "sudo -E rm -rf " \o AsPosix(p)}}
             rmf == {p \in DOMAIN fs :
                        /\ fs[p] # "dir"
                        /\ cmd \in {"rm -f " \o AsPosix(p), "sudo -E rm -f " \o AsPosix(p)}}
             venv == {p \in {JoinPath(d, <<EnvName>>) : d \in {q \in DOMAIN fs : fs[q] = "dir"}} :
                        cmd \in {"python3 -m venv " \o AsPosix(p),
                                 "sudo -E python3 -m venv " \o AsPosix(p)}}
             gone == {q \in DOMAIN fs : \E p \in rmrf : IsUnder(q, p)} \cup rmf
             kept == Without(fs, gone)
         IN  [q \in DOMAIN kept \cup venv |-> IF q \in DOMAIN kept THEN kept[q] ELSE "dir"]

\* whether the file channel can create directory target: its parent is a
\* directory and nothing has the name
CanMkdir(fs, target) ==
    /\ target \notin DOMAIN fs
    /\ Parent(target) \in DOMAIN fs
    /\ fs[Parent(target)] = "dir"

\* whether the file channel can write file target: its parent is a
\* directory and the name is not a directory's
CanPut(fs, target) ==
    /\ Parent(target) \in DOMAIN fs
    /\ fs[Parent(target)] = "dir"
    /\ (target \in DOMAIN fs => fs[target] # "dir")

(* ------------------------ control of the caller ------------------------ *)
\* an exception leaves the with block of a workflow for its finally
\* clause; a direct caller gets it as the result of the call
Raised(e) ==
    /\ pc' = (IF action = "client" THEN "idle" ELSE "exit")
    /\ exc' = e

Returned(next) ==
    /\ pc' = next
    /\ exc' = NoError

\* the file channels opened so far; the newest is the one in use
Channels(cs) == Cardinality({i \in 1..Len(cs) : cs[i].op = "open_sftp" /\ cs[i].res = "ok"})

(* ------------------------------ SSHClient ------------------------------ *)
\* the command joined with the as_root flag ignored
InvocationUnprefixed(tokens, root) == JoinWith(" ", tokens)

\* the string execute() hands to exec_command
Invocation(tokens, root) ==
    JoinWith(" ", IF root THEN <<"sudo -E">> \o tokens ELSE tokens)

ExecCall(cmd, pty, res, status) ==
    [op |-> "exec_command", cmd |-> cmd, get_pty |-> pty, res |-> res, status |-> status]

\* the remote command started by exec_command: the lines it will write to
\* stdout, how many it has written and execute() has read and printed, and
\* whether it has ended
Started(cmd, pty, status, next) ==
    [cmd |-> cmd, get_pty |-> pty, status |-> status, lines |-> RemoteStdout(status),
     written |-> 0, read |-> 0, exited |-> FALSE, from |-> Len(out), next |-> next]

\* execute with the error of exec_command swallowed: the caller goes on
ExecuteSwallowing(tokens, root, print_continuously, next) ==
    IF ~attached
    THEN /\ Raised(AttributeError)
         /\ UNCHANGED <<calls, proc>>
    ELSE LET cmd == Invocation(tokens, root)
         IN  \/ /\ calls' = Append(calls, ExecCall(cmd, print_continuously, "raise", 1))
                /\ Returned(next)
                /\ UNCHANGED proc
             \/ /\ opened
                /\ \E status \in ExitStatuses :
                     /\ calls' = Append(calls, ExecCall(cmd, print_continuously, "ok", status))
                     /\ proc' = Started(cmd, print_continuously, status, next)
                     /\ Returned("execute")

\* SSHClient.execute up to the return of exec_command (line 54); status is
\* the exit status the command started will end with
Execute(tokens, root, print_continuously, next) ==
    IF ~attached
    THEN /\ Raised(AttributeError)
         /\ UNCHANGED <<calls, proc>>
    ELSE LET cmd == Invocation(tokens, root)
         IN  \/ /\ calls' = Append(calls, ExecCall(cmd, print_continuously, "raise", 1))
                /\ Raised(SSHException)
                /\ UNCHANGED proc
             \/ /\ opened
                /\ \E status \in ExitStatuses :
                     /\ calls' = Append(calls, ExecCall(cmd, print_continuously, "ok", status))
                     /\ proc' = Started(cmd, print_continuously, status, next)
                     /\ Returned("execute")

\* the loop of lines 56 and 57: readline has a line, print writes it
ReadLine ==
    /\ proc.read < proc.written
    /\ out' = Append(out, proc.lines[proc.read + 1])
    /\ proc' = [proc EXCEPT !.read = @ + 1]
    /\ UNCHANGED <<pc, exc>>

\* lines 56 and 59: readline returns "" at the end of stdout, which comes
\* when the command has ended; print writes all of stderr and execute
\* returns
ReadToEnd ==
    /\ proc.read = Len(proc.lines)
    /\ proc.exited
    /\ out' = Append(out, JoinWith("", RemoteStderr(proc.status)) \o "\n")
    /\ proc' = NoProc
    /\ Returned(proc.next)

OpenSftpCall(res) == [op |-> "open_sftp", res |-> res]
MkdirCall(path, sftp, res) == [op |-> "mkdir", path |-> path, sftp |-> sftp, res |-> res]
PutCall(local, path, sftp, res) ==
    [op |-> "put", local |-> local, path |-> path, sftp |-> sftp, res |-> res]

\* SSHClient.copy_file
CopyFile(local_file, remote_destination, next) ==
    IF ~attached
    THEN /\ Raised(AttributeError)
         /\ UNCHANGED <<calls, remote>>
    ELSE LET target == JoinPath(remote_destination, <<Name(local_file)>>)
             cs == Append(calls, OpenSftpCall("ok"))
         IN  \/ /\ calls' = Append(calls, OpenSftpCall("raise"))
                /\ Raised(SSHException)
                /\ UNCHANGED remote
             \/ /\ opened
                /\ calls' = Append(cs, PutCall(local_file, target, Channels(cs), "raise"))
                /\ Raised(TransferError)
                /\ UNCHANGED remote
             \/ /\ opened
                /\ IsFile(localfs, local_file)
                /\ CanPut(remote, target)
                /\ calls' = Append(cs, PutCall(local_file, target, Channels(cs), "ok"))
                /\ remote' = With(remote, target, "new")
                /\ Returned(next)

ConnectCall(res) == [op |-> "connect", res |-> res]
CloseCall == [op |-> "close", res |-> "ok"]

\* SSHClient.connect
Connect(next) ==
    \/ /\ calls' = Append(calls, ConnectCall("raise"))
       /\ Raised(ConnectionError)
       /\ UNCHANGED <<attached, opened>>
    \/ /\ calls' = Append(calls, ConnectCall("ok"))
       /\ attached' = TRUE
       /\ opened' = TRUE
       /\ Returned(next)

\* SSHClient.close: an exception it raises replaces the one propagating
\* through the finally clause that called it
Close(next) ==
    /\ pc' = next
    /\ IF ~attached
       THEN /\ exc' = AttributeError
            /\ UNCHANGED <<calls, opened>>
       ELSE /\ calls' = Append(calls, CloseCall)
            /\ opened' = FALSE
            /\ exc' = (IF pc = "exit" THEN exc ELSE NoError)

\* an activation of copy_folder that takes a channel of its own instead of
\* the one handed to it
FrameFreshChannel(local_folder, remote_destination, sftp) ==
    [local_folder |-> local_folder, remote_destination |-> remote_destination,
     sftp |-> sftp + 1, todo |-> IterDir(localfs, local_folder)]

\* the activation record of a copy_folder call: its arguments, sftp being
\* the channel it works with, and the children it still has to visit
Frame(local_folder, remote_destination, sftp) ==
    [local_folder |-> local_folder, remote_destination |-> remote_destination,
     sftp |-> sftp, todo |-> IterDir(localfs, local_folder)]

\* a recursion that hands its own remote_destination on, unchanged
HereFlat(frame) == frame.remote_destination

\* the remote folder an activation fills:
\* remote_destination.joinpath(local_folder.name)
Here(frame) == JoinPath(frame.remote_destination, <<Name(frame.local_folder)>>)

\* copy_folder that goes on into a remote folder that already exists
\* (the error of mkdir swallowed)
EnterFolderMerging(local_folder, remote_destination, sftp, cs, st, cp) ==
    LET target == JoinPath(remote_destination, <<Name(local_folder)>>)
    IN  /\ calls' = Append(cs, MkdirCall(target, sftp, IF CanMkdir(remote, target) THEN "ok" ELSE "raise"))
        /\ remote' = With(remote, target, "dir")
        /\ stack' = Append(st, Frame(local_folder, remote_destination, sftp))
        /\ pc' = "copy_folder"
        /\ exc' = NoError
        /\ copy' = cp

\* copy_folder from its mkdir on, for the top-level call and the recursive
\* ones: cs are the calls so far, st the frames of the callers, cp the
\* top-level call
EnterFolder(local_folder, remote_destination, sftp, cs, st, cp) ==
    LET target == JoinPath(remote_destination, <<Name(local_folder)>>)
    IN  \/ /\ calls' = Append(cs, MkdirCall(target, sftp, "raise"))
           /\ Raised(TransferError)
           /\ stack' = <<>>
           /\ copy' = [cp EXCEPT !.state = "raised"]
           /\ UNCHANGED remote
        \/ /\ CanMkdir(remote, target)
           /\ calls' = Append(cs, MkdirCall(target, sftp, "ok"))
           /\ remote' = With(remote, target, "dir")
           /\ stack' = Append(st, Frame(local_folder, remote_destination, sftp))
           /\ pc' = "copy_folder"
           /\ exc' = NoError
           /\ copy' = cp

\* SSHClient.copy_folder called with no sftp: up to its first mkdir
CopyFolder(local_folder, remote_destination) ==
    LET cp == [state |-> "running", from |-> Len(calls), before |-> remote,
               local_folder |-> local_folder, remote_destination |-> remote_destination]
        cs == Append(calls, OpenSftpCall("ok"))
    IN  IF ~attached
        THEN /\ Raised(AttributeError)
             /\ copy' = [cp EXCEPT !.state = "raised"]
             /\ UNCHANGED <<calls, remote, stack>>
        ELSE \/ /\ calls' = Append(calls, OpenSftpCall("raise"))
                /\ Raised(SSHException)
                /\ copy' = [cp EXCEPT !.state = "raised"]
                /\ UNCHANGED <<remote, stack>>
             \/ /\ opened
                /\ EnterFolder(local_folder, remote_destination, Channels(cs), cs, <<>>, cp)

\* where copy_folder returns to
AfterCopy == IF action = "client" THEN "idle" ELSE "L135"

\* the loop of copy_folder with the error of a put swallowed: the loop goes
\* on with the next child
CopyFolderLoopSkipping ==
    LET top == stack[Len(stack)]
        callers == SubSeq(stack, 1, Len(stack) - 1)
        here == Here(top)
    IN  \/ /\ top.todo = {}
           /\ stack' = callers
           /\ IF callers = <<>>
              THEN /\ Returned(AfterCopy)
                   /\ copy' = [copy EXCEPT !.state = "returned"]
              ELSE UNCHANGED <<pc, exc, copy>>
           /\ UNCHANGED <<calls, remote>>
        \/ \E l_dir \in top.todo :
             LET st == Append(callers, [top EXCEPT !.todo = @ \ {l_dir}])
                 target == JoinPath(here, <<Name(l_dir)>>)
             IN  IF IsFile(localfs, l_dir)
                 THEN \/ /\ calls' = Append(calls, PutCall(l_dir, target, top.sftp, "raise"))
                         /\ stack' = st
                         /\ UNCHANGED <<pc, exc, copy, remote>>
                      \/ /\ CanPut(remote, target)
                         /\ calls' = Append(calls, PutCall(l_dir, target, top.sftp, "ok"))
                         /\ remote' = With(remote, target, "new")
                         /\ stack' = st
                         /\ UNCHANGED <<pc, exc, copy>>
                 ELSE IF IsDir(localfs, l_dir)
                 THEN EnterFolder(l_dir, here, top.sftp, calls, st, copy)
                 ELSE /\ stack' = st
                      /\ UNCHANGED <<pc, exc, copy, calls, remote>>

\* one turn of the loop of the innermost copy_folder call, or its return
CopyFolderLoop ==
    LET top == stack[Len(stack)]
        callers == SubSeq(stack, 1, Len(stack) - 1)
        here == Here(top)
    IN  \/ /\ top.todo = {}
           /\ stack' = callers
           /\ IF callers = <<>>
              THEN /\ Returned(AfterCopy)
                   /\ copy' = [copy EXCEPT !.state = "returned"]
              ELSE UNCHANGED <<pc, exc, copy>>
           /\ UNCHANGED <<calls, remote>>
        \/ \E l_dir \in top.todo :
             LET st == Append(callers, [top EXCEPT !.todo = @ \ {l_dir}])
                 target == JoinPath(here, <<Name(l_dir)>>)
             IN  IF IsFile(localfs, l_dir)
                 THEN \/ /\ calls' = Append(calls, PutCall(l_dir, target, top.sftp, "raise"))
                         /\ Raised(TransferError)
                         /\ stack' = <<>>
                         /\ copy' = [copy EXCEPT !.state = "raised"]
                         /\ UNCHANGED remote
                      \/ /\ CanPut(remote, target)
                         /\ calls' = Append(calls, PutCall(l_dir, target, top.sftp, "ok"))
                         /\ remote' = With(remote, target, "new")
                         /\ stack' = st
                         /\ UNCHANGED <<pc, exc, copy>>
                 ELSE IF IsDir(localfs, l_dir)
                 THEN EnterFolder(l_dir, here, top.sftp, calls, st, copy)
                 ELSE /\ stack' = st
                      /\ UNCHANGED <<pc, exc, copy, calls, remote>>

(* --------------------- RemotePython and main() ------------------------- *)
args == <<action, as_root, command, localfs>>
caller == <<last, opsLeft>>

\* the first statement inside the with block of each workflow
Body(a) ==
    CASE a = "env" -> "L115"
      [] a = "execute-project" -> "L133"
      [] OTHER -> "L151"

remote_project_folder == JoinPath(RemoteDestination, <<Name(ProjectPath)>>)
file_to_execute == AsPosix(JoinPath(RemoteDestination, <<Name(LocalFile)>>))

\* main() dispatches; execute_python_file asserts and prints before its
\* with block
Start ==
    /\ pc = "start"
    /\ IF action = "execute-file"
       THEN IF IsFile(localfs, LocalFile)
            THEN /\ out' = Append(out, AsPosix(RemoteDestination) \o "\n")
                 /\ pc' = "enter"
                 /\ exc' = NoError
            ELSE /\ pc' = "done"
                 /\ exc' = AssertionError
                 /\ UNCHANGED out
       ELSE /\ pc' = "enter"
            /\ UNCHANGED <<out, exc>>
    /\ UNCHANGED <<args, exit, proc, caller, remote, attached, opened, calls, stack, copy>>

\* open_ssh_client up to its yield
Enter ==
    /\ pc = "enter"
    /\ Connect(Body(action))
    /\ UNCHANGED <<args, exit, proc, caller, remote, out, stack, copy>>

\* open_ssh_client with the close after the yield and no try/finally: an
\* exception from the body skips it
ExitWithoutFinally ==
    /\ pc = "exit"
    /\ IF exc = NoError
       THEN Close("done")
       ELSE /\ pc' = "done"
            /\ UNCHANGED <<exc, calls, opened>>
    /\ UNCHANGED <<args, exit, proc, caller, remote, attached, out, stack, copy>>

\* the finally clause of open_ssh_client
Exit ==
    /\ pc = "exit"
    /\ Close("done")
    /\ UNCHANGED <<args, exit, proc, caller, remote, attached, out, stack, copy>>

\* line 115 with the command run through sudo
CreateEnvironmentElevated ==
    /\ pc = "L115"
    /\ Execute(<<"python3", "-m", "venv", AsPosix(JoinPath(EnvFolder, <<EnvName>>))>>,
               TRUE, FALSE, "exit")
    /\ UNCHANGED <<args, caller, exit, remote, out, attached, opened, stack, copy>>

\* create_python_environment, line 115
CreateEnvironment ==
    /\ pc = "L115"
    /\ Execute(<<"python3", "-m", "venv", AsPosix(JoinPath(EnvFolder, <<EnvName>>))>>,
               FALSE, FALSE, "exit")
    /\ UNCHANGED <<args, caller, exit, remote, out, attached, opened, stack, copy>>

\* execute_python_project, line 133
ProjectRemove ==
    /\ pc = "L133"
    /\ Execute(<<"rm -rf " \o AsPosix(remote_project_folder)>>, as_root, FALSE, "L134")
    /\ UNCHANGED <<args, caller, exit, remote, out, attached, opened, stack, copy>>

\* execute_python_project, line 134: the call of copy_folder
ProjectCopy ==
    /\ pc = "L134"
    /\ CopyFolder(ProjectPath, RemoteDestination)
    /\ UNCHANGED <<args, exit, proc, caller, attached, opened, out>>

\* copy_folder, lines 74 to 78
CopyFolderStep ==
    /\ pc = "copy_folder"
    /\ stack # <<>>
    /\ CopyFolderLoop
    /\ UNCHANGED <<args, exit, proc, caller, attached, opened, out>>

\* execute_python_project, line 135
ProjectRun ==
    /\ pc = "L135"
    /\ Execute(<<"python3", AsPosix(JoinPath(remote_project_folder, EntryFile))>>,
               as_root, TRUE, "exit")
    /\ UNCHANGED <<args, caller, exit, remote, out, attached, opened, stack, copy>>

\* line 151 with the as_root argument handed on
FileRemoveElevated ==
    /\ pc = "L151"
    /\ Execute(<<"rm -f " \o file_to_execute>>, as_root, FALSE, "L152")
    /\ UNCHANGED <<args, caller, exit, remote, out, attached, opened, stack, copy>>

\* execute_python_file, line 151
FileRemove ==
    /\ pc = "L151"
    /\ Execute(<<"rm -f " \o file_to_execute>>, FALSE, FALSE, "L152")
    /\ UNCHANGED <<args, caller, exit, remote, out, attached, opened, stack, copy>>

\* execute_python_file, line 152
FileCopy ==
    /\ pc = "L152"
    /\ CopyFile(LocalFile, RemoteDestination, "L153")
    /\ UNCHANGED <<args, exit, proc, caller, attached, opened, out, stack, copy>>

\* line 153 without the as_root argument
FileRunNotElevated ==
    /\ pc = "L153"
    /\ Execute(<<"python3", file_to_execute>>, FALSE, TRUE, "exit")
    /\ UNCHANGED <<args, caller, exit, remote, out, attached, opened, stack, copy>>

\* execute_python_file, line 153
FileRun ==
    /\ pc = "L153"
    /\ Execute(<<"python3", file_to_execute>>, as_root, TRUE, "exit")
    /\ UNCHANGED <<args, caller, exit, remote, out, attached, opened, stack, copy>>

\* the remote command writes its next line to stdout
RemoteWrites ==
    /\ pc = "execute"
    /\ proc.written < Len(proc.lines)
    /\ proc' = [proc EXCEPT !.written = @ + 1]
    /\ UNCHANGED <<args, caller, exit, remote, out, attached, opened, calls, pc, exc, stack, copy>>

\* the remote command ends, with its effect on the remote file system
RemoteExits ==
    /\ pc = "execute"
    /\ proc.written = Len(proc.lines)
    /\ ~proc.exited
    /\ proc' = [proc EXCEPT !.exited = TRUE]
    /\ remote' = RemoteShell(proc.cmd, proc.status, remote)
    /\ UNCHANGED <<args, caller, exit, out, attached, opened, calls, pc, exc, stack, copy>>

\* execute, lines 56 and 57
ExecuteReadLine ==
    /\ pc = "execute"
    /\ ReadLine
    /\ UNCHANGED <<args, caller, exit, remote, attached, opened, calls, stack, copy>>

\* execute, lines 56 and 59
ExecuteReturn ==
    /\ pc = "execute"
    /\ ReadToEnd
    /\ UNCHANGED <<args, caller, exit, remote, attached, opened, calls, stack, copy>>

\* the __main__ block with a handler that catches every exception
MainCatchingAll ==
    /\ action \in Workflows
    /\ pc = "done"
    /\ exit = NoExit
    /\ IF exc = NoError
       THEN /\ exit' = [how |-> "end", status |-> 0]
            /\ out' = out
       ELSE /\ out' = Append(out, exc \o "\n")
            /\ exit' = [how |-> "exit", status |-> 1]
    /\ UNCHANGED <<args, caller, proc, remote, attached, opened, calls, pc, exc, stack, copy>>

\* the __main__ block, lines 220-224, once main() has returned or raised:
\* the handler takes RemotePythonException only, prints it and calls exit(1);
\* any other exception leaves the block unhandled and the interpreter ends
\* the process with a traceback on stderr and status 1; without an
\* exception the script runs off its end with status 0
Main ==
    /\ action \in Workflows
    /\ pc = "done"
    /\ exit = NoExit
    /\ CASE exc = NoError ->
              /\ exit' = [how |-> "end", status |-> 0]
              /\ out' = out
         [] exc = RemotePythonException ->
              /\ out' = Append(out, exc \o "\n")
              /\ exit' = [how |-> "exit", status |-> 1]
         [] OTHER ->
              /\ exit' = [how |-> "traceback", status |-> 1]
              /\ out' = out
    /\ UNCHANGED <<args, caller, proc, remote, attached, opened, calls, pc, exc, stack, copy>>

Next ==
    \/ Start
    \/ Enter
    \/ CreateEnvironment
    \/ ProjectRemove
    \/ ProjectCopy
    \/ CopyFolderStep
    \/ ProjectRun
    \/ FileRemove
    \/ FileCopy
    \/ FileRun
    \/ RemoteWrites
    \/ RemoteExits
    \/ ExecuteReadLine
    \/ ExecuteReturn
    \/ Exit
    \/ Main

Spec == Init /\ [][Next]_vars

(* ------------------- a direct caller of SSHClient ---------------------- *)
SessionState == IF ~attached THEN "never" ELSE IF opened THEN "open" ELSE "closed"

\* the caller starts method op
Calling(op) ==
    /\ pc = "idle"
    /\ opsLeft > 0
    /\ opsLeft' = opsLeft - 1
    /\ last' = [op |-> op, session |-> SessionState, from |-> Len(calls)]

CallConnect ==
    /\ Calling("connect")
    /\ Connect("idle")
    /\ UNCHANGED <<args, exit, proc, remote, out, stack, copy>>

CallClose ==
    /\ Calling("close")
    /\ Close("idle")
    /\ UNCHANGED <<args, exit, proc, remote, attached, out, stack, copy>>

CallExecute ==
    /\ Calling("execute")
    /\ \E print_continuously \in BOOLEAN :
         Execute(command, as_root, print_continuously, "idle")
    /\ UNCHANGED <<args, exit, remote, out, attached, opened, stack, copy>>

CallCopyFile ==
    /\ Calling("copy_file")
    /\ CopyFile(LocalFile, RemoteDestination, "idle")
    /\ UNCHANGED <<args, exit, proc, attached, opened, out, stack, copy>>

CallCopyFolder ==
    /\ Calling("copy_folder")
    /\ CopyFolder(ProjectPath, RemoteDestination)
    /\ UNCHANGED <<args, exit, proc, attached, opened, out>>

NextSession ==
    \/ CallConnect
    \/ CallClose
    \/ CallExecute
    \/ CallCopyFile
    \/ CallCopyFolder
    \/ CopyFolderStep
    \/ RemoteWrites
    \/ RemoteExits
    \/ ExecuteReadLine
    \/ ExecuteReturn

SpecSession == InitSession /\ [][NextSession]_vars

(* ======================================================================= *)
(* Properties                                                              *)
(* ======================================================================= *)
IsIssued(c) == c.op \in {"exec_command", "mkdir", "put"}
IsChannelCall(c) == c.op \in {"mkdir", "put"}
IsPut(c) == c.op = "put"
IsMkdir(c) == c.op = "mkdir"
IsExec(c) == c.op = "exec_command"
IsClose(c) == c.op = "close"

\* the remote commands and transfers issued so far
Issued == SelectSeq(calls, IsIssued)
Connected == \E i \in 1..Len(calls) : calls[i] = ConnectCall("ok")
ConnectFailed == \E i \in 1..Len(calls) : calls[i] = ConnectCall("raise")

\* C1: in each workflow the session whose connect() succeeded is closed
\* when the workflow has returned or raised, whatever ended it, and no
\* call is made on the session after its close.
SessionClosedOnEveryExit ==
    /\ (pc = "done" /\ Connected) =>
          /\ ~opened
          /\ calls[Len(calls)] = CloseCall
          /\ Len(SelectSeq(calls, IsClose)) = 1
    /\ \A i \in 1..Len(calls) : IsClose(calls[i]) => i = Len(calls)

\* C1 witness: a workflow ended by a failed put in the middle of a
\* transfer, after a put that succeeded, with the session closed.
ClosedAfterTransferError ==
    /\ pc = "done"
    /\ exc = TransferError
    /\ Len(calls) >= 3
    /\ calls[Len(calls)] = CloseCall
    /\ calls[Len(calls) - 1].op = "put"
    /\ calls[Len(calls) - 1].res = "raise"
    /\ calls[Len(calls) - 2].op = "put"
    /\ ~opened

\* C2: when connect() fails inside a workflow, the workflow's caller gets
\* the connection failure, and no remote command or transfer is issued.
ConnectFailureReachesCaller ==
    (pc = "done" /\ ConnectFailed) => (exc = ConnectionError /\ Issued = <<>>)

\* C3: close() never raises, whatever the session's state: open, already
\* closed, or never connected.
CloseNeverRaises ==
    (pc = "idle" /\ last.op = "close") => exc = NoError

\* the error of an operation on a session that has no handle
NotConnectedError == AttributeError

\* C4: execute, copy_folder and copy_file called before connect() or
\* after close() fail with the not-connected error and issue no transport
\* call.
OperationsNeedOpenSession ==
    (/\ pc = "idle"
     /\ last.op \in {"execute", "copy_folder", "copy_file"}
     /\ last.session # "open")
    => (exc = NotConnectedError /\ Len(calls) = last.from)

(* ------------------------------ transfer ------------------------------- *)
\* the channel calls of the top-level copy_folder call `copy`
Transfer == {i \in (copy.from + 1)..Len(calls) : IsChannelCall(calls[i])}

\* the local nodes of the folder being copied
Nodes == {n \in DOMAIN localfs : IsUnder(n, copy.local_folder)}

\* R joined with the path of node n relative to the parent of D
MirrorPath(n) ==
    JoinPath(copy.remote_destination, SubSeq(n, Len(copy.local_folder), Len(n)))

\* nothing exists at or under R/D.name when copy_folder is called
DestinationFree ==
    \A q \in DOMAIN copy.before : ~IsUnder(q, MirrorPath(copy.local_folder))

\* C5: copy_folder(D, R) issues one mkdir per directory of D, D included,
\* and one put per file, each to R joined with the node's path relative to
\* the parent of D, a directory's mkdir before the calls for what is below
\* it; with R/D.name free no mkdir finds its target present.
CopyFolderMirrorsTree ==
    copy.state # "none" =>
      /\ \A i \in Transfer :
           LET c == calls[i]
           IN  /\ IF IsPut(c)
                  THEN /\ c.local \in Nodes
                       /\ IsFile(localfs, c.local)
                       /\ c.path = MirrorPath(c.local)
                  ELSE \E n \in Nodes : IsDir(localfs, n) /\ c.path = MirrorPath(n)
               /\ c.path # MirrorPath(copy.local_folder) =>
                    \E j \in Transfer :
                       /\ j < i
                       /\ calls[j] = MkdirCall(Parent(c.path), c.sftp, "ok")
               /\ \A j \in Transfer : j # i => calls[j].path # c.path
      /\ copy.state = "returned" =>
           \A n \in Nodes :
              /\ IsDir(localfs, n) =>
                   \E i \in Transfer : IsMkdir(calls[i]) /\ calls[i].path = MirrorPath(n)
              /\ IsFile(localfs, n) =>
                   \E i \in Transfer :
                      /\ IsPut(calls[i])
                      /\ calls[i].local = n
                      /\ calls[i].path = MirrorPath(n)
      /\ (copy.state = "running" /\ DestinationFree) =>
           \A k \in 1..Len(stack) : \A n \in stack[k].todo :
              MirrorPath(n) \notin DOMAIN remote

\* C5 witness: a completed copy of a project with a file, a folder and a
\* file in that folder, onto a destination where the project did not exist.
NestedTreeCopied ==
    /\ copy.state = "returned"
    /\ DestinationFree
    /\ Cardinality(Nodes) = 4
    /\ \E i \in Transfer : IsPut(calls[i]) /\ Len(calls[i].local) = Len(copy.local_folder) + 2
    /\ \E i \in Transfer : IsPut(calls[i]) /\ Len(calls[i].local) = Len(copy.local_folder) + 1

\* C6: copy_folder(D, R) when R/D.name exists on the remote host fails
\* with the transfer error of its first mkdir, issues no put, and leaves
\* the remote file system as it found it.
CollisionStopsCopy ==
    (/\ last.op = "copy_folder"
     /\ last.session = "open"
     /\ copy.state # "none"
     /\ MirrorPath(copy.local_folder) \in DOMAIN copy.before)
    => /\ copy.state = "raised"
       /\ pc = "idle"
       /\ \A i \in Transfer : calls[i] = MkdirCall(MirrorPath(copy.local_folder), calls[i].sftp, "raise")
       /\ Cardinality(Transfer) <= 1
       /\ exc = (IF Transfer = {} THEN SSHException ELSE TransferError)
       /\ remote = copy.before

\* C6 witness: copy_folder has issued its mkdir for a folder that exists
\* remotely and failed with the transfer error.
CollisionHappened ==
    /\ last.op = "copy_folder"
    /\ copy.state = "raised"
    /\ MirrorPath(copy.local_folder) \in DOMAIN copy.before
    /\ Cardinality(Transfer) = 1
    /\ exc = TransferError

(* ------------------------------ workflows ------------------------------ *)
RemoveCommands == {"rm -rf /srv/App", "sudo -E rm -rf /srv/App", "rm -f /srv/task.py"}
RunCommands == {"python3 /srv/App/run.py", "sudo -E python3 /srv/App/run.py",
                "python3 /srv/task.py", "sudo -E python3 /srv/task.py"}

\* the step of a workflow a transport call belongs to: 1 remove,
\* 2 transfer, 3 run; 0 is the connect and 4 the close
StepOf(c) ==
    CASE c.op = "connect" -> 0
      [] IsExec(c) /\ c.cmd \in RemoveCommands -> 1
      [] c.op \in {"open_sftp", "mkdir", "put"} -> 2
      [] IsExec(c) /\ c.cmd \in RunCommands -> 3
      [] IsClose(c) -> 4
      [] OTHER -> 5

CallsOfStep(k) == {i \in 1..Len(calls) : StepOf(calls[i]) = k}

\* the transfer step has finished
TransferDone ==
    IF action = "execute-project"
    THEN copy.state = "returned"
    ELSE \E i \in CallsOfStep(2) : IsPut(calls[i]) /\ calls[i].res = "ok"

\* C7: execute-project and execute-file issue remove, transfer, run in
\* that order, each after the one before it finished; a failed call is
\* followed by nothing but the close, no call is repeated, and the
\* session is closed at the end.
StepsInSequence ==
    action \in {"execute-project", "execute-file"} =>
      /\ \A i, j \in 1..Len(calls) :
           i < j => (StepOf(calls[i]) <= StepOf(calls[j]) /\ StepOf(calls[j]) <= 4)
      /\ \A k \in {0, 1, 3, 4} : Cardinality(CallsOfStep(k)) <= 1
      /\ Cardinality({i \in CallsOfStep(2) : calls[i].op = "open_sftp"}) <= 1
      /\ \A i, j \in CallsOfStep(2) :
           (i # j /\ IsChannelCall(calls[i]) /\ IsChannelCall(calls[j]))
              => calls[i].path # calls[j].path
      /\ \A i, j \in 1..Len(calls) :
           (i < j /\ calls[i].res = "raise") => IsClose(calls[j])
      /\ CallsOfStep(2) # {} => \E i \in CallsOfStep(1) : calls[i].res = "ok"
      /\ CallsOfStep(3) # {} => ((\E i \in CallsOfStep(1) : calls[i].res = "ok") /\ TransferDone)
      /\ (pc = "done" /\ Connected) => (~opened /\ calls[Len(calls)] = CloseCall)

\* C7 witness: the remove step of execute-project raised; the workflow is
\* over with the session closed and neither transfer nor run was issued.
RemoveFailedThenClosed ==
    /\ action = "execute-project"
    /\ pc = "done"
    /\ exc = SSHException
    /\ Len(calls) = 3
    /\ StepOf(calls[2]) = 1
    /\ calls[2].res = "raise"
    /\ calls[3] = CloseCall

\* C8: execute_python_project on a run with no failure issues the
\* remove of R/project.name (elevated exactly when as_root), the mkdir
\* and put calls of the mirror, and the streaming run of python3 on
\* R/project.name/file (elevated exactly when as_root); and the transfer
\* never finds R/project.name present, whether or not it existed before.
ProjectRedeploysCleanly ==
    action = "execute-project" =>
      /\ (pc = "done" /\ exc = NoError) =>
           LET n == Len(Issued)
           IN  /\ n >= 3
               /\ IsExec(Issued[1])
               /\ Issued[1].cmd = (IF as_root THEN "sudo -E rm -rf /srv/App" ELSE "rm -rf /srv/App")
               /\ Issued[2] = MkdirCall(<<"srv", "App">>, 1, "ok")
               /\ \A i \in 2..(n - 1) : IsChannelCall(Issued[i])
               /\ IsExec(Issued[n])
               /\ Issued[n].cmd = (IF as_root THEN "sudo -E python3 /srv/App/run.py"
                                              ELSE "python3 /srv/App/run.py")
               /\ Issued[n].get_pty
      /\ pc = "L134" => <<"srv", "App">> \notin DOMAIN remote

\* C9: execute_python_file on a run with no failure issues three calls:
\* the remove of R/local_file.name, one put of local_file to
\* R/local_file.name, and the streaming run of python3 on it, with the
\* elevation prefix exactly when as_root.
FileWorkflowCalls ==
    (action = "execute-file" /\ pc = "done" /\ exc = NoError) =>
      /\ Len(Issued) = 3
      /\ IsExec(Issued[1])
      /\ Issued[1].cmd \in {"rm -f /srv/task.py", "sudo -E rm -f /srv/task.py"}
      /\ Issued[2] = PutCall(<<"local", "task.py">>, <<"srv", "task.py">>, 1, "ok")
      /\ IsExec(Issued[3])
      /\ Issued[3].cmd = (IF as_root THEN "sudo -E python3 /srv/task.py"
                                     ELSE "python3 /srv/task.py")
      /\ Issued[3].get_pty

\* C9 witness: an elevated execute-file run that ended without error,
\* over a file left by an earlier run.
ElevatedFileRunDone ==
    /\ action = "execute-file"
    /\ pc = "done"
    /\ exc = NoError
    /\ as_root
    /\ Len(Issued) = 3
    /\ remote[<<"srv", "task.py">>] = "new"

(* ------------------------------- execute ------------------------------- *)
RECURSIVE SpaceJoined(_)
\* the tokens in order, a single space between each two
SpaceJoined(tokens) ==
    IF tokens = <<>> THEN ""
    ELSE IF Len(tokens) = 1 THEN tokens[1]
    ELSE SpaceJoined(SubSeq(tokens, 1, Len(tokens) - 1)) \o " " \o tokens[Len(tokens)]

\* a direct call of execute() on a session that has a handle has returned
ExecuteCalled ==
    /\ pc = "idle"
    /\ last.op = "execute"
    /\ last.session # "never"

\* C10 as stated: execute() sends one string, the tokens joined by single
\* spaces, and with as_root the prefix sudo -E, a single space, and that
\* same string.
InvocationIsPrefixSpaceTokens ==
    ExecuteCalled =>
      /\ Len(calls) = last.from + 1
      /\ IsExec(calls[Len(calls)])
      /\ calls[Len(calls)].cmd =
           (IF as_root THEN "sudo -E" \o " " \o SpaceJoined(command) ELSE SpaceJoined(command))

\* C10 amended: execute() sends one string, the tokens joined by single
\* spaces; with as_root the prefix sudo -E is joined in as a first token,
\* so a space separates it from the tokens only when there is a token.
InvocationJoinsPrefixAsToken ==
    ExecuteCalled =>
      /\ Len(calls) = last.from + 1
      /\ IsExec(calls[Len(calls)])
      /\ calls[Len(calls)].cmd =
           (IF ~as_root THEN SpaceJoined(command)
            ELSE IF command = <<>> THEN "sudo -E"
            ELSE "sudo -E " \o SpaceJoined(command))

\* C10 witness: an elevated execute() of two tokens, one of them holding
\* a space, sent unescaped.
ElevatedTokensSent ==
    /\ ExecuteCalled
    /\ as_root
    /\ command = <<"ls", "-l /tmp">>
    /\ calls[Len(calls)].cmd = "sudo -E ls -l /tmp"

(* ------------------------------- output -------------------------------- *)
\* what the execute() call in progress has printed
PrintedByCall == SubSeq(out, proc.from + 1, Len(out))

RECURSIVE PrintedFor(_)
\* what the completed execute() calls in cs print: for each, its stdout
\* lines and then all of its stderr in one print
PrintedFor(cs) ==
    IF cs = <<>> THEN <<>>
    ELSE LET c == Head(cs)
             rest == PrintedFor(Tail(cs))
         IN  IF IsExec(c) /\ c.res = "ok"
             THEN RemoteStdout(c.status) \o <<JoinWith("", RemoteStderr(c.status)) \o "\n">> \o rest
             ELSE rest

\* C11: in streaming mode execute() prints each stdout line as it is
\* produced, in order; in buffered mode it prints nothing until the remote
\* command has ended; in both modes all of stderr is printed once, after
\* the last stdout line, also when it is empty.
OutputFollowsMode ==
    /\ pc = "execute" =>
         /\ PrintedByCall = SubSeq(proc.lines, 1, proc.read)
         /\ (~proc.get_pty /\ ~proc.exited) => PrintedByCall = <<>>
    /\ (action \in Workflows /\ pc = "done" /\ exc = NoError) =>
         out = (IF action = "execute-file" THEN <<"/srv\n">> ELSE <<>>) \o PrintedFor(calls)

(* -------------------------- create environment ------------------------- *)
\* C12: the create-environment workflow opens one session, issues one
\* remote command, python3 -m venv on path/env_name, not elevated and in
\* buffered mode, issues no mkdir and no put, and closes the session.
EnvironmentWorkflowCalls ==
    action = "env" =>
      /\ \A i \in 1..Len(calls) :
           /\ calls[i].op \in {"connect", "exec_command", "close"}
           /\ IsExec(calls[i]) =>
                (calls[i].cmd = "python3 -m venv /srv/venv" /\ ~calls[i].get_pty)
      /\ \A op \in {"connect", "exec_command", "close"} :
           Cardinality({i \in 1..Len(calls) : calls[i].op = op}) <= 1
      /\ (pc = "done" /\ Connected) =>
           /\ Len(calls) = 3
           /\ calls[1] = ConnectCall("ok")
           /\ IsExec(calls[2])
           /\ calls[3] = CloseCall
           /\ ~opened

\* C12 witness: the workflow is over without error and the remote command
\* has created the environment folder.
EnvironmentCreated ==
    /\ action = "env"
    /\ pc = "done"
    /\ exc = NoError
    /\ Len(calls) = 3
    /\ calls[2].status = 0
    /\ <<"srv", "venv">> \in DOMAIN remote

(* ------------------------------ entry point ---------------------------- *)
\* C13 as stated: status 1 with the message printed on a domain failure,
\* status 0 on normal completion, and any other error never ends in
\* status 0 or 1.
EntryPointNeverMasksErrors ==
    exit # NoExit =>
      /\ exc = NoError => exit.status = 0
      /\ exc = RemotePythonException =>
           (exit.status = 1 /\ out # <<>> /\ out[Len(out)] = exc \o "\n")
      /\ exc \notin {NoError, RemotePythonException} => exit.status \notin {0, 1}

\* C13: the process ends with status 0 when the workflow completes
\* normally, and with status 1 through the handler, the message printed,
\* on a RemotePythonException; any other error is not handled: the entry
\* point prints nothing for it and the interpreter ends the process with
\* a traceback, whose status is 1 as well, never 0.
EntryPointExitStatus ==
    exit # NoExit =>
      /\ exc = NoError => exit = [how |-> "end", status |-> 0]
      /\ exc = RemotePythonException =>
           /\ exit = [how |-> "exit", status |-> 1]
           /\ out # <<>> /\ out[Len(out)] = exc \o "\n"
      /\ exc \notin {NoError, RemotePythonException} =>
           /\ exit = [how |-> "traceback", status |-> 1]
           /\ \A i \in 1..Len(out) : out[i] # exc \o "\n"

\* C13 witness: a workflow ended in a transfer error and the process is over.
UnhandledErrorEndedProcess ==
    /\ exit # NoExit
    /\ exc = TransferError
    /\ Connected

(* --------------------------- session handle ---------------------------- *)
\* a connect() has succeeded and no close() has been called since
InWindow ==
    \E i \in 1..Len(calls) :
      /\ calls[i] = ConnectCall("ok")
      /\ \A j \in (i + 1)..Len(calls) : ~IsClose(calls[j])

\* C14: the connection handle is present exactly between a successful
\* connect() and the next close(): absent before connect(), and absent
\* again once close() has been called.
HandleOnlyInWindow ==
    attached <=> InWindow

(* --------------------------- partial failure --------------------------- *)
\* the mkdir and put calls of the transfer that raised
FailedTransferCalls == {i \in Transfer : calls[i].res = "raise"}

\* C15: a mkdir or put that fails during copy_folder, at any depth, ends
\* the whole top-level call with that error: every activation is left, no
\* mkdir, put or command is issued after it, and every remote path the
\* transfer created before it is still there.
FailedTransferAborts ==
    action = "execute-project" =>
      /\ \A i \in FailedTransferCalls :
           /\ copy.state = "raised"
           /\ exc = TransferError
           /\ stack = <<>>
           /\ \A j \in (i + 1)..Len(calls) : IsClose(calls[j])
      /\ \A i \in Transfer :
           calls[i].res = "ok" =>
             /\ calls[i].path \in DOMAIN remote
             /\ remote[calls[i].path] = (IF IsMkdir(calls[i]) THEN "dir" ELSE "new")

\* C15 witness: a put inside a subfolder failed after the transfer had
\* created the project folder and the subfolder, with a child of the
\* project folder not yet visited; the workflow is over.
FailedBelowWithSiblingsLeft ==
    /\ action = "execute-project"
    /\ pc = "done"
    /\ \E i \in FailedTransferCalls :
         /\ IsPut(calls[i])
         /\ Len(calls[i].path) = Len(MirrorPath(copy.local_folder)) + 2
         /\ Parent(calls[i].path) \in DOMAIN remote
         /\ \E k \in Nodes :
              /\ Len(k) = Len(copy.local_folder) + 1
              /\ IsFile(localfs, k)
              /\ \A j \in Transfer : calls[j].path # MirrorPath(k)

(* ------------------------ remote exit status -------------------------- *)
\* a transport call that raised for a reason of its own, not because the
\* folder the transfer creates was already on the remote host
TransportFault(c) ==
    /\ c.res = "raise"
    /\ ~(IsMkdir(c) /\ c.path \in DOMAIN copy.before)

\* a remote command that ended with a nonzero exit status
EndedNonzero(c) == IsExec(c) /\ c.res = "ok" /\ c.status # 0

\* C16: a nonzero exit status of the remove or run command never fails a
\* workflow: with no transport call failing on its own, execute() returns
\* normally, the following steps are issued, and the workflow returns
\* without an error.
NonzeroStatusNeverFails ==
    (/\ action \in {"execute-project", "execute-file"}
     /\ pc = "done"
     /\ \E i \in 1..Len(calls) : EndedNonzero(calls[i])
     /\ \A i \in 1..Len(calls) : ~TransportFault(calls[i]))
    => /\ exc = NoError
       /\ TransferDone
       /\ Cardinality({i \in 1..Len(calls) : IsExec(calls[i])}) = 2

(* ----------------------------- file channel ---------------------------- *)
\* the open_sftp calls made since the top-level copy_folder call started
ChannelsOpenedByCopy == {i \in (copy.from + 1)..Len(calls) : calls[i].op = "open_sftp"}

\* C17: one top-level copy_folder call opens exactly one file channel,
\* before its first mkdir; the recursive calls open none, and every mkdir
\* and put of the transfer goes through that channel.
OneChannelPerTransfer ==
    (action = "execute-project" /\ copy.state # "none") =>
      /\ Cardinality(ChannelsOpenedByCopy) = 1
      /\ \A o \in ChannelsOpenedByCopy :
           /\ o = copy.from + 1
           /\ \A i \in Transfer :
                /\ calls[o].res = "ok"
                /\ calls[i].sftp = Channels(SubSeq(calls, 1, o))

\* C17 witness: a transfer has returned that made a subfolder and put a
\* file into it and a file beside it.
DeepTransferOverOneChannel ==
    /\ action = "execute-project"
    /\ copy.state = "returned"
    /\ \E i, j, k \in Transfer :
         /\ IsMkdir(calls[i]) /\ Len(calls[i].path) = Len(MirrorPath(copy.local_folder)) + 1
         /\ IsPut(calls[j]) /\ Len(calls[j].path) = Len(MirrorPath(copy.local_folder)) + 2
         /\ IsPut(calls[k]) /\ Len(calls[k].path) = Len(MirrorPath(copy.local_folder)) + 1

(* ------------------------------ elevation ------------------------------ *)
\* C18: execute-file issues its remove command without the elevation
\* prefix whatever as_root is and elevates only the interpreter run;
\* execute-project elevates both its remove command and its run exactly
\* when as_root is set.
ElevationPerStep ==
    \A i \in 1..Len(calls) :
      IsExec(calls[i]) =>
        CASE action = "execute-file" ->
               calls[i].cmd \in {"rm -f /srv/task.py",
                                 IF as_root THEN "sudo -E python3 /srv/task.py"
                                            ELSE "python3 /srv/task.py"}
          [] action = "execute-project" ->
               calls[i].cmd \in (IF as_root
                                 THEN {"sudo -E rm -rf /srv/App", "sudo -E python3 /srv/App/run.py"}
                                 ELSE {"rm -rf /srv/App", "python3 /srv/App/run.py"})
          [] OTHER -> TRUE

\* C18 witness: an execute-file run with as_root whose plain remove
\* command ended with a nonzero status and whose elevated run was issued.
PlainRemoveThenElevatedRun ==
    /\ action = "execute-file"
    /\ as_root
    /\ \E i, j \in 1..Len(calls) :
         /\ i < j
         /\ calls[i] = ExecCall("rm -f /srv/task.py", FALSE, "ok", 1)
         /\ IsExec(calls[j])
         /\ calls[j].cmd = "sudo -E python3 /srv/task.py"

====
